---------------------------- MODULE Spec2Model ----------------------------
(***************************************************************************)
(* A model of backend/main.py of yoursurvivalexpert.ai: the profile        *)
(* helpers (normalize_profile, extract_profile_from_message,               *)
(* get_missing_fields), the email detectors, the reply selection of        *)
(* POST /api/chat, and the render-and-send flow of POST /api/guide.        *)
(*                                                                         *)
(* Text is modelled by TLA+ strings over ASCII; the regular expressions of *)
(* the source are modelled by operators that scan the characters of the    *)
(* string (Len, SubSeq and \o act on strings in TLC).                      *)
(***************************************************************************)
EXTENDS Integers, Sequences, FiniteSets, TLC

VARIABLES
    req,        \* /api/chat: the request being answered (messages, profile, service outcome)
    resp,       \* /api/chat: the response returned for req
    path,       \* /api/chat: the return statement of the handler that produced resp
    aiCalled,   \* /api/chat: whether call_openai was invoked while answering req
    turn,       \* /api/chat: number of chat turns answered so far
    xin,        \* extractor: the profile passed in
    xmsg,       \* extractor: the message passed in
    xout,       \* extractor: the profile returned
    xpass,      \* extractor: number of applications so far
    pin,        \* profile helpers: the caller-supplied profile
    pout,       \* profile helpers: result of the last helper call
    pop,        \* profile helpers: which helper produced pout
    gin,        \* /api/guide and create_pdf: the inputs of the call
    gout        \* /api/guide and create_pdf: the outcome of the call

chatVars    == <<req, resp, path, aiCalled, turn>>
extractVars == <<xin, xmsg, xout, xpass>>
profileVars == <<pin, pout, pop>>
guideVars   == <<gin, gout>>
vars        == <<req, resp, path, aiCalled, turn, xin, xmsg, xout, xpass, pin, pout, pop, gin, gout>>

None == "<None>"    \* Python's None (never a text the model draws)

---------------------------------------------------------------------------
(* Characters and the character classes of Python's re on ASCII text.      *)

LowerLetters == "abcdefghijklmnopqrstuvwxyz"
UpperLetters == "ABCDEFGHIJKLMNOPQRSTUVWXYZ"
DigitChars   == "0123456789"

CharsOf(s) == {SubSeq(s, i, i) : i \in 1..Len(s)}

LowerSet  == CharsOf(LowerLetters)                  \* [a-z]
UpperSet  == CharsOf(UpperLetters)                  \* [A-Z]
LetterSet == LowerSet \cup UpperSet                 \* [A-Za-z]
DigitSet  == CharsOf(DigitChars)                    \* [0-9]
SpaceSet  == {" ", "\t", "\n", "\r"}                \* \s
WordSet   == LetterSet \cup DigitSet \cup {"_"}      \* \w

IsUpper(c) == c \in UpperSet
IsSpace(c) == c \in SpaceSet
IsWord(c)  == c \in WordSet

At(s, i) == SubSeq(s, i, i)

\* str.lower()
LowerChar(c) ==
    IF IsUpper(c)
    THEN At(LowerLetters, CHOOSE i \in 1..Len(UpperLetters) : At(UpperLetters, i) = c)
    ELSE c

RECURSIVE Lower(_)
Lower(s) == IF Len(s) = 0 THEN "" ELSE LowerChar(At(s, 1)) \o Lower(SubSeq(s, 2, Len(s)))

\* re.sub(r"[^K]", "", s): keep the characters of the class K
RECURSIVE KeepChars(_, _)
KeepChars(s, K) ==
    IF Len(s) = 0 THEN ""
    ELSE (IF At(s, 1) \in K THEN At(s, 1) ELSE "") \o KeepChars(SubSeq(s, 2, Len(s)), K)

\* str.strip()
Strip(s) ==
    LET idx == {i \in 1..Len(s) : ~IsSpace(At(s, i))}
    IN  IF idx = {} THEN ""
        ELSE SubSeq(s, CHOOSE i \in idx : \A j \in idx : i <= j,
                       CHOOSE i \in idx : \A j \in idx : i >= j)

\* \b between s[i] and s[i+1] (i = 0: before the first character; i = Len(s): after the last)
Boundary(s, i) ==
    LET before == i >= 1 /\ IsWord(At(s, i))
        after  == i + 1 <= Len(s) /\ IsWord(At(s, i + 1))
    IN  before # after

\* the literal w occupies s[i .. i+Len(w)-1]
LiteralAt(s, i, w) == i >= 1 /\ i + Len(w) - 1 <= Len(s) /\ SubSeq(s, i, i + Len(w) - 1) = w

\* re.search(r"\b(w1|w2|...)\b", s) finds a match
SearchWord(s, words) ==
    \E w \in words : \E i \in 1..Len(s) :
        LiteralAt(s, i, w) /\ Boundary(s, i - 1) /\ Boundary(s, i + Len(w) - 1)

\* every character of s is in the class K
AllChars(s, K) == \A i \in 1..Len(s) : At(s, i) \in K

Min(S) == CHOOSE x \in S : \A y \in S : x <= y
Max(S) == CHOOSE x \in S : \A y \in S : x >= y

---------------------------------------------------------------------------
(* The profile: a Python dict from field names to strings.                 *)

PROFILE_TEMPLATE == [preparingFor |-> "", concern |-> "", region |-> ""]

\* the field names of QUESTION_ORDER, in order
QUESTION_KEYS == <<"preparingFor", "concern", "region">>

\* dict(QUESTION_ORDER): the question text of each field (the dash of the
\* first question is written in ASCII here, as is the one of READY_REPLY)
QUESTION_TEXT ==
    [preparingFor |-> "Who are you preparing for - yourself or a household/family?",
     concern      |-> "What situation are you most concerned about?",
     region       |-> "What general region are you in?"]

\* Python truthiness of an Optional[str]
Truthy(v) == v # "" /\ v # None

\* dict.get(key)
Get(profile, key) == IF key \in DOMAIN profile THEN profile[key] ELSE None

\* mutant of normalize_profile: the merge of the caller's items is left out
\* (merged.update(...) never runs), so every request starts from the template
normalize_profile_Resets(profile) == PROFILE_TEMPLATE

\* normalize_profile(profile): PROFILE_TEMPLATE updated with every item of profile
\* whose value is non-empty (profile is a dict: the request models default it to {})
normalize_profile(profile) ==
    LET kept == {k \in DOMAIN profile : Truthy(profile[k])}
    IN  [k \in (DOMAIN PROFILE_TEMPLATE) \cup kept |->
            IF k \in kept THEN profile[k] ELSE PROFILE_TEMPLATE[k]]

\* the list comprehension of get_missing_fields over keys[i..]
RECURSIVE MissingFrom(_, _, _)
MissingFrom(profile, keys, i) ==
    IF i > Len(keys) THEN <<>>
    ELSE (IF ~Truthy(Get(profile, keys[i])) THEN <<keys[i]>> ELSE <<>>)
         \o MissingFrom(profile, keys, i + 1)

\* mutant of get_missing_fields: only keys present in the profile are reported
\* (profile[key] == "" instead of not profile.get(key))
get_missing_fields_PresentOnly(profile) ==
    MissingFrom(profile, SelectSeq(QUESTION_KEYS, LAMBDA k : k \in DOMAIN profile), 1)

get_missing_fields(profile) == MissingFrom(profile, QUESTION_KEYS, 1)

---------------------------------------------------------------------------
(* extract_profile_from_message                                            *)

greeting_terms == {"hi", "hello", "hey", "yo", "thanks", "thank you", "ok", "okay"}

FamilyWords  == {"family", "kids", "children", "household", "partner", "spouse"}
SelfWords    == {"myself", "yourself", "self", "just me", "solo", "single", "only me",
                 "for me", "me"}
GenericQuestionWords == {"what", "which", "choices", "options"}
OtherFieldWords == {"family", "kids", "children", "household", "partner", "spouse",
                    "myself", "self", "solo", "single", "only me",
                    "beginner", "intermediate", "advanced"}
RegionPrepositions == {"in", "from", "near"}

common_regions ==
    [k \in {"us", "usa", "united states", "united states of america", "uk",
            "united kingdom", "canada", "australia"} |->
        CASE k \in {"us", "usa", "united states", "united states of america"} -> "United States"
          [] k \in {"uk", "united kingdom"} -> "United Kingdom"
          [] k = "canada" -> "Canada"
          [] k = "australia" -> "Australia"]

\* number of consecutive characters of class K in s from position a on
RunLen(s, a, K) ==
    LET stops == {j \in a..Len(s) : At(s, j) \notin K}
    IN  IF stops = {} THEN Len(s) - a + 1 ELSE Min(stops) - a

MinLenConcern == 3
MaxLenConcern == 40
MinLenRegion  == 3
MaxLenRegion  == 40
MinRegionGroup == 2
MaxRegionGroup == 40

\* the group captured by \b(?:in|from|near)\s+([A-Za-z\s]{2,40}) (IGNORECASE) when the
\* match starts at position i, or None when there is no match starting there:
\* \s+ and the group are greedy, and \s+ gives characters back until the group has 2
RegionGroupAt(message, i) ==
    LET lower == Lower(message)
        kws   == {w \in RegionPrepositions : LiteralAt(lower, i, w)}
    IN  IF kws = {} \/ ~Boundary(message, i - 1) THEN None
        ELSE LET a     == i + Len(CHOOSE w \in kws : TRUE)
                 ws    == RunLen(message, a, SpaceSet)
                 run   == RunLen(message, a, LetterSet \cup SpaceSet)
                 takes == {k \in 1..ws : run - k >= MinRegionGroup}
             IN  IF takes = {} THEN None
                 ELSE LET k == Max(takes)
                          n == IF run - k > MaxRegionGroup THEN MaxRegionGroup ELSE run - k
                      IN  SubSeq(message, a + k, a + k + n - 1)

\* region_match.group(1) of re.search (the leftmost match), or None
region_match(message) ==
    LET starts == {i \in 1..Len(message) : RegionGroupAt(message, i) # None}
    IN  IF starts = {} THEN None ELSE RegionGroupAt(message, Min(starts))

\* lines 157-161
ExtractPreparingFor(current, message) ==
    LET lower == Lower(message)
    IN  IF Truthy(current) THEN current
        ELSE IF SearchWord(lower, FamilyWords) THEN "Family or household"
        ELSE IF SearchWord(lower, SelfWords) THEN "Myself"
        ELSE current

\* mutant of ExtractConcern: the `if not updated["concern"]` guard is dropped
ExtractConcern_Overwrites(current, message) ==
    LET lower   == Lower(message)
        cleaned == Strip(KeepChars(lower, LowerSet \cup SpaceSet \cup {"-"}))
    IN  IF /\ MinLenConcern <= Len(cleaned) /\ Len(cleaned) <= MaxLenConcern
           /\ "?" \notin CharsOf(message) /\ ~SearchWord(lower, GenericQuestionWords)
        THEN Strip(message)
        ELSE current

\* lines 163-167
ExtractConcern(current, message) ==
    LET lower   == Lower(message)
        cleaned == Strip(KeepChars(lower, LowerSet \cup SpaceSet \cup {"-"}))
        is_question == "?" \in CharsOf(message)
        has_generic_question == SearchWord(lower, GenericQuestionWords)
    IN  IF Truthy(current) THEN current
        ELSE IF /\ MinLenConcern <= Len(cleaned) /\ Len(cleaned) <= MaxLenConcern
                /\ ~is_question /\ ~has_generic_question
             THEN Strip(message)
        ELSE current

\* lines 169-172: the (in|from|near) tier
RegionPatternTier(current, message) ==
    IF Truthy(current) THEN current
    ELSE IF region_match(message) # None THEN Strip(region_match(message))
    ELSE current

\* line 175
Normalized(message) == Strip(KeepChars(Lower(message), LowerSet \cup SpaceSet))

\* lines 189-195: the condition of the catch-all tier
CatchAllApplies(message) ==
    LET lower      == Lower(message)
        normalized == Normalized(message)
        is_short_region == /\ MinLenRegion <= Len(normalized) /\ Len(normalized) <= MaxLenRegion
                           /\ Len(normalized) >= 1
                           /\ AllChars(normalized, LowerSet \cup SpaceSet)
        is_not_other_field == ~SearchWord(lower, OtherFieldWords)
        is_not_greeting == normalized \notin greeting_terms
    IN  is_short_region /\ is_not_other_field /\ is_not_greeting

\* lines 174-196: the lookup-table tier, then the catch-all tier
RegionFallbackTiers(current, message) ==
    IF Truthy(current) THEN current
    ELSE IF Normalized(message) \in DOMAIN common_regions
         THEN common_regions[Normalized(message)]
    ELSE IF CatchAllApplies(message) THEN Strip(message)
    ELSE current

ExtractRegion(current, message) ==
    RegionFallbackTiers(RegionPatternTier(current, message), message)

extract_profile_from_message(profile, message) ==
    IF ~Truthy(message) THEN profile
    ELSE [profile EXCEPT
            !.preparingFor = ExtractPreparingFor(@, message),
            !.concern      = ExtractConcern(@, message),
            !.region       = ExtractRegion(@, message)]

---------------------------------------------------------------------------
(* Email detection and validation                                          *)

\* number of consecutive characters outside the class K in s from position a on
RunLenNot(s, a, K) ==
    LET stops == {j \in a..Len(s) : At(s, j) \in K}
    IN  IF stops = {} THEN Len(s) - a + 1 ELSE Min(stops) - a

\* what a pattern ending in $ has to match: $ also matches before one final newline
DollarBody(s) ==
    IF Len(s) >= 1 /\ At(s, Len(s)) = "\n" THEN SubSeq(s, 1, Len(s) - 1) ELSE s

\* the positions of the character c in s
Positions(s, c) == {i \in 1..Len(s) : At(s, i) = c}

MaxLocalPart == 64
MinDomainLen == 3
MinTldLen    == 2

\* re.match(r'^[^\s@]+@[^\s@]+\.[^\s@]+$', email)
EmailRegexMatches(email) ==
    LET body == DollarBody(email)
        ats  == Positions(body, "@")
    IN  /\ \A i \in 1..Len(body) : ~IsSpace(At(body, i))
        /\ Cardinality(ats) = 1
        /\ LET k == CHOOSE i \in ats : TRUE
           IN  /\ k >= 2
               /\ \E d \in Positions(body, ".") : d >= k + 2 /\ d <= Len(body) - 1

\* re.match(r'^\w+(\.\w+)*\.\w{2,}$', domain)
DomainRegexMatches(domain) ==
    LET body == DollarBody(domain)
        dots == Positions(body, ".")
    IN  /\ Len(body) >= 1
        /\ AllChars(body, WordSet \cup {"."})
        /\ dots # {}
        /\ 1 \notin dots
        /\ \A d \in dots : d + 1 \notin dots
        /\ Max(dots \cup {0}) <= Len(body) - MinTldLen

StartsWith(s, c) == Len(s) >= 1 /\ At(s, 1) = c
EndsWith(s, c)   == Len(s) >= 1 /\ At(s, Len(s)) = c

validate_email(email) ==
    IF ~Truthy(email) THEN FALSE
    ELSE IF ~EmailRegexMatches(email) THEN FALSE
    ELSE LET at         == Max(Positions(email, "@"))          \* email.rsplit('@', 1)
             local_part == SubSeq(email, 1, at - 1)
             domain     == SubSeq(email, at + 1, Len(email))
         IN  IF Len(local_part) = 0 \/ Len(local_part) > MaxLocalPart THEN FALSE
             ELSE IF \/ StartsWith(local_part, ".") \/ EndsWith(local_part, ".")
                     \/ \E i \in 1..Len(local_part) - 1 :
                            At(local_part, i) = "." /\ At(local_part, i + 1) = "."
                  THEN FALSE
             ELSE IF Len(domain) < MinDomainLen \/ ~DomainRegexMatches(domain) THEN FALSE
             ELSE IF StartsWith(domain, "-") \/ EndsWith(domain, "-") THEN FALSE
             ELSE TRUE

\* the match of \b[^\s@]+@[^\s]+\b that starts at position i, or None:
\* [^\s]+ is greedy and gives characters back until it ends at a word boundary
CandidateAt(message, i) ==
    LET n == RunLenNot(message, i, SpaceSet \cup {"@"})
        a == i + n + 1
    IN  IF ~Boundary(message, i - 1) \/ n < 1 \/ ~LiteralAt(message, i + n, "@") THEN None
        ELSE LET tail == RunLenNot(message, a, SpaceSet)
                 ends == {e \in a..(a + tail - 1) : Boundary(message, e)}
             IN  IF ends = {} THEN None ELSE SubSeq(message, i, Max(ends))

\* detect_email_candidate: the leftmost match, or None
detect_email_candidate(message) ==
    LET starts == {i \in 1..Len(message) : CandidateAt(message, i) # None}
    IN  IF starts = {} THEN None ELSE CandidateAt(message, Min(starts))

EmailLocalClass  == LetterSet \cup DigitSet \cup {".", "_", "%", "+", "-"}
EmailDomainClass == LetterSet \cup DigitSet \cup {".", "-"}
EmailTldClass    == LetterSet \cup {"|"}

\* the match of \b[A-Za-z0-9._%+-]+@[A-Za-z0-9.-]+\.[A-Z|a-z]{2,}\b that starts at
\* position i, or None: the domain and then the last label are greedy
EmailAt(message, i) ==
    LET n == RunLen(message, i, EmailLocalClass)
        a == i + n + 1
    IN  IF ~Boundary(message, i - 1) \/ n < 1 \/ ~LiteralAt(message, i + n, "@") THEN None
        ELSE LET run     == RunLen(message, a, EmailDomainClass)
                 EndsOf(d) == {e \in (d + MinTldLen)..(d + RunLen(message, d + 1, EmailTldClass)) :
                                  Boundary(message, e)}
                 dots    == {d \in (a + 1)..(a + run - 1) :
                                At(message, d) = "." /\ EndsOf(d) # {}}
             IN  IF dots = {} THEN None
                 ELSE SubSeq(message, i, Max(EndsOf(Max(dots))))

\* detect_email_in_message: the leftmost match, or None
detect_email_in_message(message) ==
    LET starts == {i \in 1..Len(message) : EmailAt(message, i) # None}
    IN  IF starts = {} THEN None ELSE EmailAt(message, Min(starts))

---------------------------------------------------------------------------
(* Reply selection and the POST /api/chat handler                          *)

READY_REPLY ==
    "Thanks - I have what I need. If you'd like, I can generate a personalized preparedness guide and email it to you."

\* mutant of build_chat_reply: asks for the last missing field instead of the first
build_chat_reply_LastMissing(profile, missing) ==
    IF Len(missing) = 0 THEN READY_REPLY ELSE QUESTION_TEXT[missing[Len(missing)]]

build_chat_reply(profile, missing) ==
    IF Len(missing) = 0 THEN READY_REPLY ELSE QUESTION_TEXT[missing[1]]

\* call_openai: None without a client, None when the call or the reading of the
\* reply raises, otherwise the stripped content of the first choice.
\* outcome.kind is what the completion service does with this call.
call_openai(outcome) ==
    IF outcome.kind = "unconfigured" THEN None
    ELSE IF outcome.kind = "error" THEN None
    ELSE Strip(outcome.content)

\* next((m for m in reversed(messages) if m.role == "user"), None), as its content
LatestUserContent(messages) ==
    LET users == {i \in 1..Len(messages) : messages[i].role = "user"}
    IN  IF users = {} THEN None ELSE messages[Max(users)].content

\* re.search(r"\bemail\b", ai_reply, re.IGNORECASE)
MentionsEmail(ai_reply) == SearchWord(Lower(ai_reply), {"email"})

\* mutant of MalformedEmailReply: the next question is never appended
MalformedEmailReply_NoQuestion(email_candidate, missing) ==
    "'" \o email_candidate \o "' is not a valid email format. "
    \o "Please provide a correct email like name@example.com."

\* lines 484-492
MalformedEmailReply(email_candidate, missing) ==
    LET extra == IF Len(missing) > 0 THEN " " \o QUESTION_TEXT[missing[1]] ELSE ""
    IN  "'" \o email_candidate \o "' is not a valid email format. "
        \o "Please provide a correct email like name@example.com." \o extra

\* lines 497-504
EmailEarlyReply(missing) ==
    "Thanks. I will collect your email after we finish your profile. "
    \o QUESTION_TEXT[missing[1]]

\* lines 506-513
EmailReadyReply ==
    "That email format looks valid. Please enter it in the email field below and click 'Send my guide'."

\* mutant of SelectReply: the service reply is preferred without the "email" guard
SelectReply_NoEmailGuard(ai_reply, profile, missing) ==
    IF Truthy(ai_reply) THEN ai_reply ELSE build_chat_reply(profile, missing)

\* lines 526-530
SelectReply(ai_reply, profile, missing) ==
    IF Len(missing) > 0 /\ Truthy(ai_reply) /\ MentionsEmail(ai_reply)
    THEN build_chat_reply(profile, missing)
    ELSE IF Truthy(ai_reply) THEN ai_reply ELSE build_chat_reply(profile, missing)

\* mutant of NotMissing: the flag is computed as bool(missing)
NotMissing_Inverted(missing) == Len(missing) > 0

\* "readyForEmail": not missing (lines 491 and 535)
NotMissing(missing) == Len(missing) = 0

\* the handler: the response, the return statement taken (ret) and whether
\* call_openai was reached (called)
chat(request) ==
    LET content     == LatestUserContent(request.messages)
        profile     == extract_profile_from_message(normalize_profile(request.profile), content)
        missing     == get_missing_fields(profile)
        latest_text == IF content = None THEN "" ELSE content
        email_candidate == IF Truthy(latest_text) THEN detect_email_candidate(latest_text) ELSE None
        detected_email  == IF Truthy(latest_text) THEN detect_email_in_message(latest_text) ELSE None
    IN  IF Truthy(email_candidate) /\ ~validate_email(email_candidate)
        THEN [reply |-> MalformedEmailReply(email_candidate, missing), profile |-> profile,
              readyForEmail |-> NotMissing(missing), ret |-> "malformed_email", called |-> FALSE]
        ELSE IF Truthy(detected_email) /\ Len(missing) > 0
        THEN [reply |-> EmailEarlyReply(missing), profile |-> profile,
              readyForEmail |-> FALSE, ret |-> "email_early", called |-> FALSE]
        ELSE IF Truthy(detected_email) /\ Len(missing) = 0
        THEN [reply |-> EmailReadyReply, profile |-> profile,
              readyForEmail |-> TRUE, ret |-> "email_ready", called |-> FALSE]
        ELSE [reply |-> SelectReply(call_openai(request.ai), profile, missing),
              profile |-> profile,
              readyForEmail |-> NotMissing(missing), ret |-> "completion", called |-> TRUE]

---------------------------------------------------------------------------
(* The requests drawn by the chat specification                            *)

UserMsg(c) == [role |-> "user", content |-> c]
AsstMsg(c) == [role |-> "assistant", content |-> c]

ChatContents ==
    {"", "hi", "hello", "family", "just me", "Texas", "in Texas", "usa", "wildfire",
     "what options?", "beginner", "family in Texas", "Family, wildfire",
     "a@b", "john@@example", "john@example", "john@example.com", "my email is jo@ex.com",
     "a..b@x.co", "a@b.c1", "me@x.io", "family in Texas jo@ex.com", "kids near Reno a@b",
     "self a@b.c1"}

Conversations ==
    {<<UserMsg(c)>> : c \in ChatContents}
    \cup {<<>>,
          <<AsstMsg(QUESTION_TEXT.preparingFor)>>,
          <<UserMsg("family"), AsstMsg(QUESTION_TEXT.concern)>>,
          <<UserMsg("family"), UserMsg("in Texas")>>,
          <<AsstMsg(QUESTION_TEXT.preparingFor), UserMsg("a@b"), AsstMsg("ok")>>}

\* caller-supplied profiles: any dict of strings, with keys missing, empty or unknown
RawProfiles ==
    {<<>>,
     [preparingFor |-> "", concern |-> "", region |-> ""],
     [preparingFor |-> "Myself"],
     [concern |-> "Wildfire", region |-> ""],
     [preparingFor |-> "Myself", concern |-> "Wildfire"],
     [preparingFor |-> "Myself", concern |-> "Wildfire", region |-> "Ohio"],
     [nickname |-> "Sam"],
     [preparingFor |-> "Family or household", concern |-> "Flood", region |-> "Utah",
      nickname |-> ""]}

Unconfigured == [kind |-> "unconfigured", content |-> ""]
ServiceError == [kind |-> "error", content |-> ""]
ServiceReply(c) == [kind |-> "reply", content |-> c]

AiContents ==
    {" ", "Which region are you in? ", "What is your Email?", "Check your emails later."}

AiOutcomes == {Unconfigured, ServiceError} \cup {ServiceReply(c) : c \in AiContents}

Requests == [messages : Conversations, profile : RawProfiles, ai : AiOutcomes]

FollowUpContents ==
    {"", "Texas", "just me", "family", "wildfire", "in Utah", "usa", "hello",
     "a@b", "jo@ex.com", "kids near Reno a@b"}
FollowUpOutcomes == {Unconfigured, ServiceReply("What is your Email?")}

MaxTurns == 3

---------------------------------------------------------------------------
(* Specification of /api/chat: a first request with any conversation and   *)
(* any profile, then turns in which the client sends back the profile of   *)
(* the previous response.                                                  *)

IdleChat    == req = None /\ resp = None /\ path = None /\ aiCalled = FALSE /\ turn = 0
IdleExtract == xin = None /\ xmsg = None /\ xout = None /\ xpass = 0
IdleProfile == pin = None /\ pout = None /\ pop = "none"
IdleGuide   == gin = [op |-> "none"] /\ gout = [op |-> "none"]

\* the handler answers request r
Answer(r) ==
    \E result \in {chat(r)} :
        /\ req' = r
        /\ resp' = [reply |-> result.reply, profile |-> result.profile,
                    readyForEmail |-> result.readyForEmail]
        /\ path' = result.ret
        /\ aiCalled' = result.called
        /\ turn' = turn + 1
        /\ UNCHANGED <<extractVars, profileVars, guideVars>>

FirstTurn ==
    /\ turn = 0
    /\ \E r \in Requests : Answer(r)

NextTurn ==
    /\ turn >= 1
    /\ turn < MaxTurns
    /\ \E c \in FollowUpContents, ai \in FollowUpOutcomes :
          Answer([messages |-> <<UserMsg(c)>>, profile |-> resp.profile, ai |-> ai])

Init == IdleChat /\ IdleExtract /\ IdleProfile /\ IdleGuide

Next == FirstTurn \/ NextTurn

Spec == Init /\ [][Next]_vars

---------------------------------------------------------------------------
(* Properties of /api/chat, checked under Spec                             *)

Answered == turn >= 1

\* the text of the latest user message of the request ("" when there is none)
LatestText == IF LatestUserContent(req.messages) = None THEN ""
              ELSE LatestUserContent(req.messages)

\* the fields of the returned profile that are still empty, by get_missing_fields
RespMissing == get_missing_fields(resp.profile)

\* C2: on every return path of the chat handler, readyForEmail is true exactly
\* when get_missing_fields finds no missing field in the returned profile.
C2_ReadyIffNoneMissing ==
    Answered =>
        /\ path \in {"malformed_email", "email_early", "email_ready", "completion"}
        /\ resp.readyForEmail <=> (RespMissing = <<>>)

\* C2 witness: a valid email arrived with a complete profile and the flag is set.
C2_Witness ==
    /\ Answered
    /\ path = "email_ready"
    /\ resp.readyForEmail
    /\ \A k \in DOMAIN PROFILE_TEMPLATE : resp.profile[k] # ""

\* the reply of the completion service for the request, stripped (None: nothing)
AiReply == call_openai(req.ai)

\* C6: on a turn not pre-empted by email handling, a non-empty reply of the
\* completion service is returned as it is, except that with a field missing a
\* reply containing the word "email" is replaced by the question of the first
\* missing field; so no response with a missing field carries a service reply
\* that mentions "email".
C6_PreferServiceReply ==
    (Answered /\ path = "completion" /\ AiReply # None /\ AiReply # "") =>
        /\ resp.reply = IF RespMissing # <<>> /\ MentionsEmail(AiReply)
                        THEN QUESTION_TEXT[RespMissing[1]]
                        ELSE AiReply
        /\ (RespMissing # <<>> /\ resp.reply = AiReply) => ~MentionsEmail(resp.reply)
        /\ (req.ai.content = "What is your Email?" /\ RespMissing # <<>>)
               => resp.reply \in {QUESTION_TEXT[k] : k \in DOMAIN QUESTION_TEXT}
        /\ req.ai.content = "Check your emails later." => resp.reply = req.ai.content

\* C6 witness: the service asked for the email while a field was missing, and the
\* handler answered with the question of the first missing field instead.
C6_Witness ==
    /\ Answered
    /\ path = "completion"
    /\ req.ai = ServiceReply("What is your Email?")
    /\ RespMissing # <<>>
    /\ resp.reply = QUESTION_TEXT[RespMissing[1]]

\* C7: build_chat_reply gives the fixed "ready" message for an empty missing
\* list and the question of the first missing field otherwise, and on a turn not
\* pre-empted where the completion service produced nothing (unconfigured,
\* errored or empty) the reply is exactly that.
C7_FallbackReply ==
    (Answered /\ path = "completion" /\ (AiReply = None \/ AiReply = "")) =>
        /\ resp.reply = build_chat_reply(resp.profile, RespMissing)
        /\ RespMissing = <<>> => resp.reply = READY_REPLY
        /\ RespMissing # <<>> => resp.reply = QUESTION_TEXT[RespMissing[1]]

\* C7 witness: the service errored on a complete profile: the "ready" message.
C7_Witness ==
    /\ Answered
    /\ path = "completion"
    /\ req.ai.kind = "error"
    /\ RespMissing = <<>>
    /\ resp.reply = READY_REPLY

\* C8: when the latest user message holds an email-shaped token that fails
\* validate_email, the reply is the format-correction message, followed by the
\* question of the first missing field exactly when a field is missing, and
\* call_openai is not invoked in that turn.
C8_MalformedEmail ==
    LET candidate == detect_email_candidate(LatestText)
        correction == "'" \o candidate \o "' is not a valid email format. "
                      \o "Please provide a correct email like name@example.com."
    IN  (Answered /\ LatestText # "" /\ candidate # None /\ ~validate_email(candidate)) =>
            /\ path = "malformed_email"
            /\ ~aiCalled
            /\ RespMissing = <<>> => resp.reply = correction
            /\ RespMissing # <<>> =>
                   resp.reply = correction \o " " \o QUESTION_TEXT[RespMissing[1]]

\* C8 witness: "john@@example" with fields missing: corrected, one question
\* appended, no call of the completion service.
C8_Witness ==
    /\ Answered
    /\ LatestText = "john@@example"
    /\ path = "malformed_email"
    /\ ~aiCalled
    /\ RespMissing # <<>>
    /\ resp.reply = "'john@@example' is not a valid email format. "
                    \o "Please provide a correct email like name@example.com. "
                    \o QUESTION_TEXT[RespMissing[1]]

\* the keys of a profile whose value is non-empty (the fields that are set)
SetFields(profile) == {k \in DOMAIN profile : Truthy(profile[k])}

\* the fields named by a list of missing fields
MissingSet(profile) ==
    {get_missing_fields(profile)[i] : i \in 1..Len(get_missing_fields(profile))}

\* one later turn: the handler answers a request that carries the profile of the
\* previous response
LaterTurn == turn >= 1 /\ turn' = turn + 1 /\ req'.profile = resp.profile

\* the step from one response to the next keeps every set field at its value,
\* adds no field to the missing list and does not take readyForEmail back
ProgressKept ==
    /\ \A k \in SetFields(resp.profile) :
           k \in DOMAIN resp'.profile /\ resp'.profile[k] = resp.profile[k]
    /\ MissingSet(resp'.profile) \subseteq MissingSet(resp.profile)
    /\ resp.readyForEmail => resp'.readyForEmail

\* C11: over any sequence of chat turns in which the client sends back the
\* profile of the previous response, every turn keeps the progress of the turn
\* before it: a field set in a response has the same value in the next response,
\* the missing list of the next response holds no field that was not missing
\* before, and readyForEmail once true is true in the next response, whatever
\* the message and the completion-service outcome of that turn.  The three
\* relations are transitive, so they hold between a response and every later one.
C11_ProgressMonotonic == [][LaterTurn => ProgressKept]_vars

\* C11 witness: at the last turn of the conversation, with the region set
\* before, a message that the catch-all tier would take as a region arrives; the
\* profile comes back untouched and readyForEmail is still true.
C11_Witness ==
    /\ turn = MaxTurns
    /\ LatestText = "Texas"
    /\ Truthy(req.profile.region) /\ req.profile.region # "Texas"
    /\ extract_profile_from_message(PROFILE_TEMPLATE, "Texas").region = "Texas"
    /\ resp.profile = req.profile
    /\ get_missing_fields(req.profile) = <<>>
    /\ resp.readyForEmail

---------------------------------------------------------------------------
(* Specification of extract_profile_from_message as a function: the        *)
(* profile and the message are drawn, the extractor is applied, and it is  *)
(* applied again to its own result with further messages.                  *)

LongText == "abcdefghijklmnopqrstuvwxyzabcdefghijklmno"      \* 41 letters

ExtractWords ==
    {"family", "me", "just me", "yourself", "for me", "only me", "Texas", "in", "from  ",
     "usa", "hello", "hi", "beginner", "what", "flood?", "UK!", "begin", LongText}

PairWords ==
    {"family", "me", "just", "yourself", "Texas", "in", "near", "usa", "hi", "flood", "!"}

ExtractMessages ==
    {None, ""} \cup ExtractWords \cup {a \o " " \o b : a \in PairWords, b \in PairWords}

\* profiles as the handler passes them: the three fields, each empty or set
ExtractProfiles ==
    [preparingFor : {"", "Myself"}, concern : {"", "Wildfire"}, region : {"", "Ohio"}]

RepeatMessages == {"family in Texas", "just me", "usa"}

MaxPasses == 2

InitExtract ==
    /\ xin \in ExtractProfiles
    /\ xmsg \in ExtractMessages
    /\ xout = None
    /\ xpass = 0
    /\ IdleChat /\ IdleProfile /\ IdleGuide

\* the extractor is applied to the drawn profile and message
Extract ==
    /\ xpass = 0
    /\ xout' = extract_profile_from_message(xin, xmsg)
    /\ xpass' = 1
    /\ UNCHANGED <<xin, xmsg, chatVars, profileVars, guideVars>>

\* the extractor is applied to its own result, with another message
ExtractAgain ==
    /\ xpass >= 1
    /\ xpass < MaxPasses
    /\ \E m \in RepeatMessages :
          /\ xin' = xout
          /\ xmsg' = m
          /\ xout' = extract_profile_from_message(xout, m)
    /\ xpass' = xpass + 1
    /\ UNCHANGED <<chatVars, profileVars, guideVars>>

NextExtract == Extract \/ ExtractAgain

SpecExtract == InitExtract /\ [][NextExtract]_vars

Extracted == xpass >= 1

\* C1: the extractor never changes a field that is non-empty in the profile it is
\* given, whatever the message; applied to a profile whose fields are all set it
\* returns the same profile.
C1_SetFieldsKept ==
    Extracted =>
        /\ \A k \in DOMAIN PROFILE_TEMPLATE : xin[k] # "" => xout[k] = xin[k]
        /\ (\A k \in DOMAIN PROFILE_TEMPLATE : xin[k] # "") => xout = xin

\* C1 witness: concern was set and the message would pass the concern matcher;
\* concern is kept while the empty region is filled from the same message.
C1_Witness ==
    /\ Extracted
    /\ xmsg = "in Texas"
    /\ xin.concern = "Wildfire" /\ xout.concern = "Wildfire"
    /\ xin.region = "" /\ xout.region = "Texas"

\* the (in|from|near) tier left region empty (line 174 runs the later tiers)
PatternTierEmpty(message) == ~Truthy(RegionPatternTier("", message))

\* the catch-all tier is the one that set region in the last application
CatchAllSetRegion ==
    /\ Extracted
    /\ Truthy(xmsg)
    /\ xin.region = ""
    /\ xout.region # ""
    /\ PatternTierEmpty(xmsg)
    /\ Normalized(xmsg) \notin DOMAIN common_regions

\* C10: the catch-all tier sets region, to the trimmed message, only when the
\* pattern tier and the lookup tier found nothing, the letter-only normalized
\* message has 3 to 40 characters, the message holds no keyword of the
\* preparingFor matcher (family, kids, children, household, partner, spouse,
\* myself, yourself, self, just me, solo, single, only me, for me, me), and the
\* normalized message is not a bare greeting.
C10_CatchAllExcludesKeywords ==
    CatchAllSetRegion =>
        /\ xout.region = Strip(xmsg)
        /\ Len(Normalized(xmsg)) >= 3 /\ Len(Normalized(xmsg)) <= 40
        /\ ~SearchWord(Lower(xmsg), FamilyWords \cup SelfWords)
        /\ Normalized(xmsg) \notin greeting_terms

---------------------------------------------------------------------------
(* Specification of normalize_profile and get_missing_fields as functions  *)
(* of a caller-supplied profile.                                           *)

\* dicts over the three fields and one unknown key, each key absent, empty or set
CallerProfiles ==
    UNION {[keys -> {"", "Myself", "Ohio"}] :
              keys \in SUBSET {"preparingFor", "concern", "region", "nickname"}}

InitProfile ==
    /\ pin \in CallerProfiles
    /\ pout = None
    /\ pop = "none"
    /\ IdleChat /\ IdleExtract /\ IdleGuide

\* normalize_profile is applied to the caller's profile
Normalize ==
    /\ pop = "none"
    /\ pout' = normalize_profile(pin)
    /\ pop' = "normalize"
    /\ UNCHANGED <<pin, chatVars, extractVars, guideVars>>

\* get_missing_fields is applied to the caller's profile
Missing ==
    /\ pop = "none"
    /\ pout' = get_missing_fields(pin)
    /\ pop' = "missing"
    /\ UNCHANGED <<pin, chatVars, extractVars, guideVars>>

\* get_missing_fields is applied to the normalized profile, as the handlers do
MissingOfNormalized ==
    /\ pop = "normalize"
    /\ pin' = pout
    /\ pout' = get_missing_fields(pout)
    /\ pop' = "missing"
    /\ UNCHANGED <<chatVars, extractVars, guideVars>>

NextProfile == Normalize \/ Missing \/ MissingOfNormalized

SpecProfile == InitProfile /\ [][NextProfile]_vars

\* position of a field name in QUESTION_ORDER
OrderIndex(k) == CHOOSE i \in 1..Len(QUESTION_KEYS) : QUESTION_KEYS[i] = k

QuestionKeySet == {QUESTION_KEYS[i] : i \in 1..Len(QUESTION_KEYS)}

\* C4: get_missing_fields returns exactly the QUESTION_ORDER fields whose value
\* in the profile is empty or absent, each once, in QUESTION_ORDER order, and
\* nothing else.
C4_MissingIsFilteredOrder ==
    pop = "missing" =>
        LET empty == {k \in QuestionKeySet : k \notin DOMAIN pin \/ pin[k] = ""}
        IN  /\ {pout[i] : i \in 1..Len(pout)} = empty
            /\ Len(pout) = Cardinality(empty)
            /\ \A i, j \in 1..Len(pout) : i < j => OrderIndex(pout[i]) < OrderIndex(pout[j])

\* C4 witness: concern absent, region empty, an unknown empty key: the result is
\* concern then region.
C4_Witness ==
    /\ pop = "missing"
    /\ pin = [preparingFor |-> "Myself", region |-> "", nickname |-> ""]
    /\ pout = <<"concern", "region">>

\* C5: the profile produced by normalize_profile has exactly the keys
\* preparingFor, concern and region; other keys of the caller's profile are
\* ignored on merge.
C5_FieldSetClosed ==
    pop = "normalize" => DOMAIN pout = {"preparingFor", "concern", "region"}

---------------------------------------------------------------------------
(* create_pdf: the vertical layout. Lengths are in hundredths of an inch    *)
(* (1 inch = 72 points), so every step of the source is a whole number.     *)
(* The text of a block is represented by the number of lines simpleSplit    *)
(* wraps it to.                                                             *)

PageHeight    == 1100    \* letter: 11 inch
TopMargin     == 75      \* top_margin = 0.75 * inch
BottomMargin  == 75      \* bottom_margin = 0.75 * inch
LineHeight    == 20      \* line_height = 0.2 * inch
TitleStep     == 32      \* y -= 0.32 * inch after a title line
RuleGap       == 20      \* y -= 0.2 * inch before the first rule
AfterRule     == 25      \* y -= 0.25 * inch after a rule
AfterHeading  == 22      \* y -= 0.22 * inch after "Your Profile" / "Your Guide"
ProfileGap    == 15      \* y -= 0.15 * inch after the profile lines
BlankStep     == 10      \* y -= 0.1 * inch for an empty body line
HeaderStep    == 28      \* y -= 0.28 * inch after a section header
HeaderLines   == 2       \* ensure_space(2) before a section header

\* the drawing state: the cursor y, the page number, the text lines drawn so far
StartOfPdf == [y |-> PageHeight - TopMargin, page |-> 1, drawn |-> <<>>]

new_page(st) == [st EXCEPT !.y = PageHeight - TopMargin, !.page = @ + 1]

ensure_space(st, lines_needed) ==
    LET needed_height == (IF lines_needed > 1 THEN lines_needed ELSE 1) * LineHeight
    IN  IF st.y - needed_height < BottomMargin THEN new_page(st) ELSE st

\* pdf.drawString(x, y, text) of a line of the given kind
DrawString(st, kind) ==
    [st EXCEPT !.drawn = Append(@, [kind |-> kind, y |-> st.y, page |-> st.page])]

Down(st, d) == [st EXCEPT !.y = @ - d]

\* for segment in wrapped: drawString; y -= step
\* (the k-th of the n segments is drawn at y - (k - 1) * step)
DrawLines(st, kind, n, step) ==
    [st EXCEPT !.drawn = @ \o [k \in 1..n |->
                                  [kind |-> kind, y |-> st.y - (k - 1) * step, page |-> st.page]],
               !.y = @ - n * step]

\* lines 349-368: the title, the first rule and the "Your Profile" heading
DrawTitle(st, title_lines) ==
    LET titled == DrawLines(ensure_space(st, title_lines + 1), "title", title_lines, TitleStep)
        ruled  == Down(Down(titled, RuleGap), AfterRule)
    IN  Down(DrawString(ruled, "profile_heading"), AfterHeading)

\* lines 372-380: one profile item, wrapped to `wrapped` lines
DrawProfileItem(st, wrapped) ==
    DrawLines(ensure_space(st, wrapped + 1), "profile", wrapped, LineHeight)

RECURSIVE DrawProfile(_, _, _)
DrawProfile(st, wraps, i) ==
    IF i > Len(wraps) THEN st
    ELSE DrawProfile(DrawProfileItem(st, wraps[i]), wraps, i + 1)

\* lines 382-391: the second rule and the "Your Guide" heading
DrawGuideHeading(st) ==
    LET ruled == Down(Down(st, ProfileGap), AfterRule)
    IN  Down(DrawString(ruled, "guide_heading"), AfterHeading)

\* lines 396-432: one line of the body
DrawBodyLine(st, line) ==
    CASE line.kind = "blank" ->
            LET moved == Down(st, BlankStep)
            IN  IF moved.y < BottomMargin THEN new_page(moved) ELSE moved
      [] line.kind = "header" ->
            Down(DrawString(ensure_space(st, HeaderLines), "header"), HeaderStep)
      [] line.kind = "bullet" ->
            DrawLines(ensure_space(st, line.wrapped + 1), "bullet", line.wrapped, LineHeight)
      [] line.kind = "paragraph" ->
            DrawLines(ensure_space(st, line.wrapped + 1), "paragraph", line.wrapped, LineHeight)

RECURSIVE DrawBody(_, _, _)
DrawBody(st, body, i) ==
    IF i > Len(body) THEN st
    ELSE DrawBody(DrawBodyLine(st, body[i]), body, i + 1)

\* create_pdf(title, body, profile): the text lines drawn, each with its y and page
create_pdf(title_lines, body, profile_wraps) ==
    DrawBody(DrawGuideHeading(DrawProfile(DrawTitle(StartOfPdf, title_lines), profile_wraps, 1)),
             body, 1).drawn

---------------------------------------------------------------------------
(* send_email and the POST /api/guide handler                              *)

\* send_email: "skipped" when the SMTP credentials are not configured, otherwise
\* the connection, STARTTLS, login and send are attempted in turn and the first
\* one that fails raises (there is no handler around them)
send_email(smtp_configured, relay) ==
    IF ~smtp_configured THEN "skipped"
    ELSE IF relay = "ok" THEN "sent"
    ELSE "raised"

GUIDE_TITLE_LINES == 1      \* "Personalized Survival Guide" fits on one title line

\* guide(req): the document is built and rendered, send_email is called, and
\* {"ok": True} is returned; an exception leaving send_email leaves the handler
\* too, which the framework answers with status 500
guide(request) ==
    LET pdf      == create_pdf(GUIDE_TITLE_LINES, request.body, request.profile_wraps)
        delivery == send_email(request.smtp_configured, request.relay)
    IN  IF delivery = "raised"
        THEN [op |-> "guide", status |-> 500, ok |-> FALSE, delivery |-> delivery, drawn |-> pdf]
        ELSE [op |-> "guide", status |-> 200, ok |-> TRUE, delivery |-> delivery, drawn |-> pdf]

---------------------------------------------------------------------------
(* Specification of /api/guide and of create_pdf called on its own         *)

TallBlock == 39     \* a wrapped block that still fits on the first page
LongBlock == 49     \* a wrapped block with more lines than one page holds

MaxTitleLines == 2
MaxBodyLines  == 2

\* the wrapped line counts of the profile items: the three fields, or four items
\* when normalize_profile let an unknown key through
ProfileWraps ==
    [1..3 -> {1, TallBlock, LongBlock}] \cup {<<1, 1, 1, w>> : w \in {1, TallBlock, LongBlock}}

BodyLineKinds ==
    {[kind |-> "blank", wrapped |-> 0], [kind |-> "header", wrapped |-> 1],
     [kind |-> "bullet", wrapped |-> 2], [kind |-> "paragraph", wrapped |-> 1],
     [kind |-> "paragraph", wrapped |-> LongBlock]}

Bodies == UNION {[1..n -> BodyLineKinds] : n \in 0..MaxBodyLines}

RelayOutcomes == {"ok", "unreachable", "starttls_refused", "login_rejected", "send_rejected"}

GuideRequests ==
    [op : {"guide"}, email : {"jo@ex.com"}, profile_wraps : ProfileWraps, body : Bodies,
     smtp_configured : BOOLEAN, relay : RelayOutcomes]

PdfCalls ==
    [op : {"create_pdf"}, title_lines : 0..MaxTitleLines, profile_wraps : ProfileWraps,
     body : Bodies]

InitGuide == IdleGuide /\ IdleChat /\ IdleExtract /\ IdleProfile

\* POST /api/guide is answered
Guide ==
    /\ gin.op = "none"
    /\ \E r \in GuideRequests :
          /\ gin' = r
          /\ gout' = guide(r)
    /\ UNCHANGED <<chatVars, extractVars, profileVars>>

\* create_pdf is called with any title
CreatePdf ==
    /\ gin.op = "none"
    /\ \E c \in PdfCalls :
          /\ gin' = c
          /\ gout' = [op |-> "create_pdf",
                      drawn |-> create_pdf(c.title_lines, c.body, c.profile_wraps)]
    /\ UNCHANGED <<chatVars, extractVars, profileVars>>

NextGuide == Guide \/ CreatePdf

SpecGuide == InitGuide /\ [][NextGuide]_vars

\* C3: /api/guide returns {ok: true} whatever the delivery outcome (document
\* generation does not throw in this model): with the SMTP credentials
\* unconfigured, and with the relay unreachable or refusing STARTTLS, login or
\* the message, send_email does not raise and the handler reports success.
C3_GuideAlwaysOk ==
    gout.op = "guide" => (gout.status = 200 /\ gout.ok /\ gout.delivery # "raised")

\* C9: every text line create_pdf draws (title, headings, profile lines, section
\* headers, bullet and paragraph segments) is drawn at or above the bottom
\* margin, also when one wrapped block has more lines than fit on a page.
C9_NoLineBelowMargin ==
    gout.op \in {"guide", "create_pdf"} =>
        \A i \in 1..Len(gout.drawn) : gout.drawn[i].y >= BottomMargin

=============================================================================
